---- MODULE Spec2Model ----
(***************************************************************************)
(* Vocabulator (src/vocabulator.py): the word-frequency pipeline of        *)
(* extract_book_words and the "Analyze PDF" handler that calls it.         *)
(*                                                                         *)
(* Strings are sequences of one-character strings.  The external           *)
(* collaborators (PyMuPDF, spaCy, pyspellchecker) are nondeterministic     *)
(* choices over sample outputs; everything the script itself computes is   *)
(* computed here the way the script computes it.                           *)
(***************************************************************************)
EXTENDS Integers, Sequences, FiniteSets, TLC

\* ---------------------------------------------------------------- bounds
MaxTextLen == 5      \* longest raw text given to the text cleaner
MaxTokens  == 3      \* longest token sequence the analyzer returns

\* ------------------------------------------------------------ characters
\* Sample alphabet of extracted text: a word character, two different
\* whitespace characters, the hyphen and a punctuation mark.
TextChars == {"a", " ", "\n", "-", "."}

IsSpaceChar(c) == c \in {" ", "\n"}                 \* \s
IsWordChar(c)  == c \in {"a", "b", "c", "d", "A", "1", "_"}   \* \w
IsAlphaChar(c) == c \in {"a", "b", "c", "d", "A"}   \* str.isalpha, per char
IsUpperChar(c) == c \in {"A"}

\* str.lower(), one character
LowerChar(c) == IF c = "A" THEN "a" ELSE c

\* str.lower()
Lower(s) == [i \in 1..Len(s) |-> LowerChar(s[i])]

Range(s) == {s[i] : i \in 1..Len(s)}

\* All sequences over S of length 0..n
RECURSIVE SeqsUpTo(_, _)
SeqsUpTo(S, n) ==
    IF n = 0 THEN {<<>>}
    ELSE LET shorter == SeqsUpTo(S, n - 1)
         IN  shorter \cup {Append(s, x) : s \in {t \in shorter : Len(t) = n - 1}, x \in S}

\* ---------------------------------------------------------- text cleaner
\* re.sub(r"[^\w\s-]", "", raw_text)
RECURSIVE RemovePunctuation(_)
RemovePunctuation(s) ==
    IF s = <<>> THEN <<>>
    ELSE IF IsWordChar(Head(s)) \/ IsSpaceChar(Head(s)) \/ Head(s) = "-"
         THEN <<Head(s)>> \o RemovePunctuation(Tail(s))
         ELSE RemovePunctuation(Tail(s))

\* re.sub(r"\s+", " ", text): every maximal whitespace run becomes one space
RECURSIVE CollapseFrom(_, _)
CollapseFrom(s, i) ==
    IF i > Len(s) THEN <<>>
    ELSE IF IsSpaceChar(s[i])
         THEN IF i > 1 /\ IsSpaceChar(s[i - 1])
              THEN CollapseFrom(s, i + 1)
              ELSE <<" ">> \o CollapseFrom(s, i + 1)
         ELSE <<s[i]>> \o CollapseFrom(s, i + 1)

CollapseWhitespace(s) == CollapseFrom(s, 1)

\* str.strip()
RECURSIVE LStrip(_)
LStrip(s) ==
    IF s # <<>> /\ IsSpaceChar(Head(s)) THEN LStrip(Tail(s)) ELSE s

RECURSIVE RStrip(_)
RStrip(s) ==
    IF s # <<>> /\ IsSpaceChar(s[Len(s)]) THEN RStrip(SubSeq(s, 1, Len(s) - 1)) ELSE s

Strip(s) == RStrip(LStrip(s))

\* A plausible slip: whitespace collapsed before the punctuation is removed.
CleanCollapseFirst(s) == Strip(RemovePunctuation(CollapseWhitespace(s)))

\* lines 78-79
Clean(s) == Strip(CollapseWhitespace(RemovePunctuation(s)))

\* ------------------------------------------------------- language table
\* line 13
PYSPELLCHECKER_SUPPORTED_LANGS == {"en", "es", "fr", "pt", "de", "it", "ru", "nl"}

\* the conditional of lines 22-39: "xx" if "xx" in PYSPELLCHECKER_SUPPORTED_LANGS else None
SpellcheckerCode(code) ==
    IF code \in PYSPELLCHECKER_SUPPORTED_LANGS THEN code ELSE "None"

\* lines 17-42, two of the 24 rows: one without and one with a dictionary
SUPPORTED_LANGUAGES ==
    [name \in {"Catalan", "English"} |->
        IF name = "Catalan"
        THEN [spacy |-> "ca_core_news_sm", spellchecker |-> "None"]
        ELSE [spacy |-> "en_core_web_sm", spellchecker |-> SpellcheckerCode("en")]]

\* ------------------------------------------------------------- messages
MsgReadingPdf       == "Reading PDF file..."
MsgErrorReadingPdf  == "Error reading PDF file"
MsgCleaning         == "Cleaning and processing text..."
MsgModelNotFound    == "SpaCy model not found."
MsgRemovingStopwords == "Removing stopwords..."
MsgNoProcessable    == "No processable words found after initial filtering (and optional stopword removal)."
\* A plausible slip: the warning of line 100 copied to line 71.
MsgNoTextCopied     == MsgNoProcessable
MsgNoText           == "No text could be extracted from the PDF, or the file is empty."
MsgAttemptingSpell  == "Attempting spell checking for language code..."
MsgFilteredAll      == "Spell checking filtered out all words. Proceeding with words before spell check."
MsgNoneInDictionary == "No words from the text were found in the dictionary. Proceeding with words before spell check."
MsgSpellFailed      == "Could not apply spell checking. Skipping spell check."
MsgSpellSkipped     == "Spell checking is enabled, but the selected language does not have a configured or supported spellchecker. Skipping."
MsgNoneRemained     == "No words remained after all processing steps."
MsgComplete         == "Word analysis complete!"
MsgNothingToDisplay == "Analysis complete, but no words were found to display after filtering."
MsgPleaseUpload     == "Please upload a PDF file to extract."

Info(m)    == <<"info", m>>
Warning(m) == <<"warning", m>>
Error(m)   == <<"error", m>>
Success(m) == <<"success", m>>

\* ------------------------------------------------------ sample inputs
\* Texts PyMuPDF may return from a document: empty, whitespace only,
\* punctuation only, and two texts with words.
SampleTexts == {<<>>, <<" ", "\n">>, <<".">>, <<"a">>, <<"a", ".", " ", "a">>}

\* Lemma strings the analyzer may attach to a token: a one-letter lemma, two
\* lowercase words, a capitalised one and one with a non-letter (spaCy's
\* "-PRON-" is of that shape).
SampleLemmas == {<<"a">>, <<"a", "b">>, <<"A", "b">>, <<"c", "d">>, <<"-", "d">>}

\* A spaCy token: Token.is_alpha describes the token's text, Token.lemma_ is
\* the lemma; the analyzer sets both.
Tokens == [is_alpha : BOOLEAN, lemma_ : SampleLemmas]

\* Words a stopword list may hold
Vocabulary == {Lower(l) : l \in SampleLemmas}

\* ------------------------------------------------------ pipeline stages
\* line 90
KeepToken(word) == word.is_alpha /\ Len(word.lemma_) > 1

\* lines 87-91
BasicLemmas(doc) ==
    LET kept == SelectSeq(doc, KeepToken)
    IN  [i \in 1..Len(kept) |-> Lower(kept[i].lemma_)]

\* A plausible slip: the comprehension keeps every lemma.
RemoveStopwordsKeepsAll(ls, sw) == ls

\* line 97
RemoveStopwordsFrom(ls, sw) ==
    LET NotStop(l) == l \notin sw IN SelectSeq(ls, NotStop)

\* line 115
KnownOnly(ls, known) ==
    LET IsKnown(l) == l \in known IN SelectSeq(ls, IsKnown)

\* A plausible slip: the first fallback test is left out.
SpellcheckBranchWithoutFirst(ls, current, known) ==
    IF known = {} /\ ls # <<>> THEN "none_in_dictionary" ELSE "adopt"

\* lines 117-130: which of the three branches is taken
SpellcheckBranch(ls, current, known) ==
    IF ls # <<>> /\ current = <<>> THEN "filtered_all"
    ELSE IF known = {} /\ ls # <<>> THEN "none_in_dictionary"
    ELSE "adopt"

\* A plausible slip: the filtered sequence is adopted whatever the branch.
ApplySpellcheckNoFallback(ls, outcome, known) ==
    IF outcome # "answered"
    THEN [lemmas |-> ls,
          notes  |-> <<Info(MsgAttemptingSpell), Warning(MsgSpellFailed)>>]
    ELSE [lemmas |-> KnownOnly(ls, known),
          notes  |-> <<Info(MsgAttemptingSpell)>>]

\* A plausible slip: the filtered sequence is initialised empty before the
\* try block and assigned unconditionally after it, so an error empties it.
ApplySpellcheckErrorEmpties(ls, outcome, known) ==
    IF outcome # "answered"
    THEN [lemmas |-> <<>>,
          notes  |-> <<Info(MsgAttemptingSpell), Warning(MsgSpellFailed)>>]
    ELSE LET current == KnownOnly(ls, known)
         IN  IF ls # <<>> /\ current = <<>>
             THEN [lemmas |-> ls,
                   notes  |-> <<Info(MsgAttemptingSpell), Warning(MsgFilteredAll)>>]
             ELSE [lemmas |-> current,
                   notes  |-> <<Info(MsgAttemptingSpell)>>]

\* lines 109-137: the dictionary stage for a language with a dictionary.
\* outcome is what the SpellChecker did: "construct_error" (line 111 raised),
\* "known_error" (line 112 raised) or "answered" (known is its answer).
ApplySpellcheck(ls, outcome, known) ==
    IF outcome # "answered"
    THEN [lemmas |-> ls,
          notes  |-> <<Info(MsgAttemptingSpell), Warning(MsgSpellFailed)>>]
    ELSE LET current == KnownOnly(ls, known)
             branch  == SpellcheckBranch(ls, current, known)
         IN  CASE branch = "filtered_all" ->
                    [lemmas |-> ls,
                     notes  |-> <<Info(MsgAttemptingSpell), Warning(MsgFilteredAll)>>]
               [] branch = "none_in_dictionary" ->
                    [lemmas |-> ls,
                     notes  |-> <<Info(MsgAttemptingSpell), Warning(MsgNoneInDictionary)>>]
               [] OTHER ->
                    [lemmas |-> current,
                     notes  |-> <<Info(MsgAttemptingSpell)>>]

\* A plausible slip: the skip is reported with st.warning.
SkipSpellcheckWarns(ls) ==
    [lemmas |-> ls, notes |-> <<Warning(MsgSpellSkipped)>>]

\* line 139: the language has no dictionary
SkipSpellcheck(ls) ==
    [lemmas |-> ls, notes |-> <<Info(MsgSpellSkipped)>>]

\* ------------------------------------------------------------ aggregator
\* A plausible slip: every occurrence gets a row of its own.
RECURSIVE CountIntoAppending(_, _)
CountIntoAppending(rows, ls) ==
    IF ls = <<>> THEN rows
    ELSE CountIntoAppending(Append(rows, [Word |-> Head(ls), Count |-> 1]), Tail(ls))

\* Counter(meaningful_lemmas).items(): one pass, rows in first-seen order
RECURSIVE CountInto(_, _)
CountInto(rows, ls) ==
    IF ls = <<>> THEN rows
    ELSE LET w == Head(ls)
         IN  IF \E i \in 1..Len(rows) : rows[i].Word = w
             THEN CountInto([i \in 1..Len(rows) |->
                                IF rows[i].Word = w
                                THEN [rows[i] EXCEPT !.Count = @ + 1]
                                ELSE rows[i]],
                            Tail(ls))
             ELSE CountInto(Append(rows, [Word |-> w, Count |-> 1]), Tail(ls))

\* line 147
CounterItems(ls) == CountInto(<<>>, ls)

\* A plausible slip: ascending=False forgotten.
RECURSIVE InsertByCountAscending(_, _)
InsertByCountAscending(sorted, r) ==
    IF sorted = <<>> THEN <<r>>
    ELSE IF Head(sorted).Count <= r.Count
         THEN <<Head(sorted)>> \o InsertByCountAscending(Tail(sorted), r)
         ELSE <<r>> \o sorted

\* r goes behind every row whose count is at least r's
RECURSIVE InsertByCount(_, _)
InsertByCount(sorted, r) ==
    IF sorted = <<>> THEN <<r>>
    ELSE IF Head(sorted).Count >= r.Count
         THEN <<Head(sorted)>> \o InsertByCount(Tail(sorted), r)
         ELSE <<r>> \o sorted

RECURSIVE SortFrom(_, _, _)
SortFrom(rows, i, sorted) ==
    IF i > Len(rows) THEN sorted
    ELSE SortFrom(rows, i + 1, InsertByCount(sorted, rows[i]))

\* line 149: sort_values(by="Count", ascending=False).  The order of rows
\* with equal counts is whatever the sort leaves; no property below reads it.
SortValues(rows) == SortFrom(rows, 1, <<>>)

\* ----------------------------------------------------------------- state
VARIABLES
    pc,                 \* position in the script run
    language_details,   \* line 165
    remove_stopwords,   \* line 172
    enable_spellcheck,  \* line 191
    raw_text,           \* line 67
    cleaned_text,       \* line 79
    recleaned_text,     \* the cleaner applied to cleaned_text
    lemmas,             \* lines 87, 97
    stop_words,         \* line 96
    meaningful_lemmas,  \* lines 103, 130
    spell_outcome,      \* what the SpellChecker did in this run
    dictionary_words,   \* line 112
    word_counts,        \* line 147, the rows before sorting
    df_results,         \* rows of the DataFrame, line 151
    result,             \* what extract_book_words returned
    notes,              \* st.info/warning/error/success calls of the run, in order
    empty_stage,        \* history: the stage at which the lemma sequence became empty
    no_data_log         \* history: <<stage, message>> of every "no data" run so far

vars == <<pc, language_details, remove_stopwords, enable_spellcheck, raw_text,
          cleaned_text, recleaned_text, lemmas, stop_words, meaningful_lemmas, spell_outcome,
          dictionary_words, word_counts, df_results, result, notes, empty_stage,
          no_data_log>>

\* a fresh run of the script, before any button is pressed
FreshRun ==
    /\ language_details = SUPPORTED_LANGUAGES["English"]
    /\ remove_stopwords = TRUE
    /\ enable_spellcheck = TRUE
    /\ cleaned_text = <<>>
    /\ recleaned_text = <<>>
    /\ lemmas = <<>>
    /\ stop_words = {}
    /\ meaningful_lemmas = <<>>
    /\ spell_outcome = "not_used"
    /\ dictionary_words = {}
    /\ word_counts = <<>>
    /\ df_results = <<>>
    /\ result = "not_called"
    /\ notes = <<>>
    /\ empty_stage = "none"

Init ==
    /\ pc = "idle"
    /\ FreshRun
    /\ raw_text = <<>>
    /\ no_data_log = {}

\* extract_book_words returns None with a "no data" warning
NoData(stage, msg, sofar) ==
    /\ notes' = Append(sofar, Warning(msg))
    /\ result' = "None"
    /\ empty_stage' = stage
    /\ no_data_log' = no_data_log \cup {<<stage, msg>>}
    /\ pc' = "done"

\* lines 217-79: "Analyze PDF" pressed; the document is opened, its text
\* extracted and cleaned
ClickAnalyze ==
    /\ pc = "idle"
    /\ \E name \in DOMAIN SUPPORTED_LANGUAGES, rs \in BOOLEAN, es \in BOOLEAN,
          upload \in {"none", "unreadable", "pdf"} :
        /\ language_details' = SUPPORTED_LANGUAGES[name]
        /\ remove_stopwords' = rs
        /\ enable_spellcheck' = es
        /\ CASE upload = "none" ->
                  \* lines 258-259
                  /\ notes' = <<Warning(MsgPleaseUpload)>>
                  /\ pc' = "done"
                  /\ UNCHANGED <<raw_text, cleaned_text, result, empty_stage, no_data_log>>
             [] upload = "unreadable" ->
                  \* lines 61-65
                  /\ notes' = <<Info(MsgReadingPdf), Error(MsgErrorReadingPdf)>>
                  /\ result' = "None"
                  /\ pc' = "done"
                  /\ UNCHANGED <<raw_text, cleaned_text, empty_stage, no_data_log>>
             [] OTHER ->
                  \E text \in SampleTexts :
                    /\ raw_text' = text
                    /\ IF Strip(text) = <<>>
                       THEN \* lines 70-72
                            /\ NoData("text", MsgNoText, <<Info(MsgReadingPdf)>>)
                            /\ UNCHANGED cleaned_text
                       ELSE \* lines 74-79
                            /\ cleaned_text' = Clean(text)
                            /\ notes' = <<Info(MsgReadingPdf), Info(MsgCleaning)>>
                            /\ pc' = "nlp"
                            /\ UNCHANGED <<result, empty_stage, no_data_log>>
    /\ UNCHANGED <<recleaned_text, lemmas, stop_words, meaningful_lemmas,
                   spell_outcome, dictionary_words, word_counts, df_results>>

\* Token sequences the analyzer may return for a text: none for the empty
\* text, at least one token otherwise
Docs(text) ==
    IF text = <<>> THEN {<<>>}
    ELSE SeqsUpTo(Tokens, MaxTokens) \ {<<>>}

\* lines 81-91: the model is loaded and run, the basic filter applied
RunAnalyzer ==
    /\ pc = "nlp"
    /\ \/ \* lines 49-54: the model is not installed, st.stop() ends the run
          /\ notes' = Append(notes, Error(MsgModelNotFound))
          /\ result' = "stopped"
          /\ pc' = "done"
          /\ UNCHANGED <<lemmas, empty_stage>>
       \/ \E doc \in Docs(cleaned_text) :
            /\ lemmas' = BasicLemmas(doc)
            /\ empty_stage' = IF lemmas' = <<>> THEN "basic" ELSE "none"
            /\ pc' = "stopwords"
            /\ UNCHANGED <<notes, result>>
    /\ UNCHANGED <<language_details, remove_stopwords, enable_spellcheck, raw_text,
                   cleaned_text, recleaned_text, stop_words, meaningful_lemmas, spell_outcome,
                   dictionary_words, word_counts, df_results, no_data_log>>

\* lines 93-103: optional stopword removal, then the first emptiness check
RemoveStopwords ==
    /\ pc = "stopwords"
    /\ \E sw \in (IF remove_stopwords THEN SUBSET Vocabulary ELSE {{}}) :
         LET after == IF remove_stopwords THEN RemoveStopwordsFrom(lemmas, sw) ELSE lemmas
             sofar == IF remove_stopwords
                      THEN Append(notes, Info(MsgRemovingStopwords)) ELSE notes
         IN  /\ stop_words' = sw
             /\ lemmas' = after
             /\ IF after = <<>>
                THEN /\ NoData(IF lemmas = <<>> THEN "basic" ELSE "stopword",
                               MsgNoProcessable, sofar)
                     /\ UNCHANGED meaningful_lemmas
                ELSE /\ meaningful_lemmas' = after
                     /\ notes' = sofar
                     /\ pc' = "spellcheck"
                     /\ UNCHANGED <<result, empty_stage, no_data_log>>
    /\ UNCHANGED <<language_details, remove_stopwords, enable_spellcheck, raw_text,
                   cleaned_text, recleaned_text, spell_outcome, dictionary_words, word_counts,
                   df_results>>

\* What the dictionary may do when asked about ls: fail to load, fail to
\* answer, or answer with those of the words it knows
SpellcheckerReplies(ls) ==
    {[outcome |-> "construct_error", known |-> {}],
     [outcome |-> "known_error", known |-> {}]}
    \cup {[outcome |-> "answered", known |-> k] : k \in SUBSET Range(ls)}

\* lines 105-144: optional dictionary filter, then the second emptiness check
SpellCheck ==
    /\ pc = "spellcheck"
    /\ \E reply \in (IF enable_spellcheck /\ language_details.spellchecker # "None"
                     THEN SpellcheckerReplies(meaningful_lemmas)
                     ELSE {[outcome |-> "not_used", known |-> {}]}) :
         LET stage == IF ~enable_spellcheck
                      THEN [lemmas |-> meaningful_lemmas, notes |-> <<>>]
                      ELSE IF language_details.spellchecker # "None"
                           THEN ApplySpellcheck(meaningful_lemmas, reply.outcome, reply.known)
                           ELSE SkipSpellcheck(meaningful_lemmas)
         IN  /\ spell_outcome' = reply.outcome
             /\ dictionary_words' = reply.known
             /\ meaningful_lemmas' = stage.lemmas
             /\ IF stage.lemmas = <<>>
                THEN NoData("all", MsgNoneRemained, notes \o stage.notes)
                ELSE /\ notes' = notes \o stage.notes
                     /\ pc' = "aggregate"
                     /\ UNCHANGED <<result, empty_stage, no_data_log>>
    /\ UNCHANGED <<language_details, remove_stopwords, enable_spellcheck, raw_text,
                   cleaned_text, recleaned_text, lemmas, stop_words, word_counts, df_results>>

\* lines 146-151 and 228-257: the table is built, sorted, returned and shown
Aggregate ==
    /\ pc = "aggregate"
    /\ word_counts' = CounterItems(meaningful_lemmas)
    /\ df_results' = SortValues(word_counts')
    /\ result' = "DataFrame"
    /\ notes' = Append(notes, IF df_results' # <<>>
                              THEN Success(MsgComplete)
                              ELSE Info(MsgNothingToDisplay))
    /\ pc' = "done"
    /\ UNCHANGED <<language_details, remove_stopwords, enable_spellcheck, raw_text,
                   cleaned_text, recleaned_text, lemmas, stop_words, meaningful_lemmas, spell_outcome,
                   dictionary_words, empty_stage, no_data_log>>

\* the script is run again without "Analyze PDF" pressed: nothing of the
\* previous run is kept
Rerun ==
    /\ pc = "done"
    /\ pc' = "idle"
    /\ language_details' = SUPPORTED_LANGUAGES["English"]
    /\ remove_stopwords' = TRUE
    /\ enable_spellcheck' = TRUE
    /\ raw_text' = <<>>
    /\ cleaned_text' = <<>>
    /\ UNCHANGED recleaned_text
    /\ lemmas' = <<>>
    /\ stop_words' = {}
    /\ meaningful_lemmas' = <<>>
    /\ spell_outcome' = "not_used"
    /\ dictionary_words' = {}
    /\ word_counts' = <<>>
    /\ df_results' = <<>>
    /\ result' = "not_called"
    /\ notes' = <<>>
    /\ empty_stage' = "none"
    /\ UNCHANGED no_data_log

Next ==
    \/ ClickAnalyze
    \/ RunAnalyzer
    \/ RemoveStopwords
    \/ SpellCheck
    \/ Aggregate
    \/ Rerun

Spec == Init /\ [][Next]_vars

\* ------------------------------------------------ the cleaner on its own
\* Every text of up to MaxTextLen characters is cleaned, and the result is
\* cleaned once more.
InitClean ==
    /\ pc = "raw"
    /\ FreshRun
    /\ raw_text \in SeqsUpTo(TextChars, MaxTextLen)
    /\ no_data_log = {}

pipeline_vars == <<language_details, remove_stopwords, enable_spellcheck, lemmas,
                   stop_words, meaningful_lemmas, spell_outcome, dictionary_words,
                   word_counts, df_results, result, notes, empty_stage, no_data_log>>

\* lines 78-79
CleanText ==
    /\ pc = "raw"
    /\ cleaned_text' = Clean(raw_text)
    /\ pc' = "cleaned"
    /\ UNCHANGED <<raw_text, recleaned_text, pipeline_vars>>

\* lines 78-79 again, on the text they produced
CleanAgain ==
    /\ pc = "cleaned"
    /\ recleaned_text' = Clean(cleaned_text)
    /\ pc' = "recleaned"
    /\ UNCHANGED <<raw_text, cleaned_text, pipeline_vars>>

NextClean ==
    \/ CleanText
    \/ CleanAgain

SpecClean == InitClean /\ [][NextClean]_vars

\* ------------------------------------------------------------ properties
Emitted(n) == \E i \in 1..Len(notes) : notes[i] = n

Keys == {df_results[i].Word : i \in 1..Len(df_results)}

IsAlphabetic(w) == w # <<>> /\ \A i \in 1..Len(w) : IsAlphaChar(w[i])
IsLowercase(w)  == \A i \in 1..Len(w) : ~IsUpperChar(w[i])

Occurrences(ls, w) == Cardinality({i \in 1..Len(ls) : ls[i] = w})

RECURSIVE SumCounts(_)
SumCounts(rows) ==
    IF rows = <<>> THEN 0 ELSE Head(rows).Count + SumCounts(Tail(rows))

\* the run went through the dictionary stage (lines 105-139)
PastSpellcheck == pc = "aggregate" \/ result = "DataFrame" \/ empty_stage = "all"

\* the dictionary stage answered and its filtered sequence was adopted (line 130)
FilterAdopted ==
    /\ PastSpellcheck
    /\ enable_spellcheck
    /\ spell_outcome = "answered"
    /\ ~Emitted(Warning(MsgFilteredAll))
    /\ ~Emitted(Warning(MsgNoneInDictionary))

\* C1: every key of a returned table is alphabetic, lowercase and at least
\* two characters long, whatever tokens the analyzer produced.
C1_KeysAlphabeticLowercaseLong ==
    result = "DataFrame" =>
        \A w \in Keys : IsAlphabetic(w) /\ IsLowercase(w) /\ Len(w) >= 2

\* C2: in a returned table no key is a stopword when stopword removal was
\* requested, and every key is a word the dictionary reported as known when
\* the dictionary filter's result was adopted.
C2_KeysRespectFilters ==
    result = "DataFrame" =>
        /\ remove_stopwords => \A w \in Keys : w \notin stop_words
        /\ FilterAdopted => \A w \in Keys : w \in dictionary_words

C2_Witness ==
    /\ result = "DataFrame"
    /\ remove_stopwords
    /\ stop_words # {}
    /\ FilterAdopted
    /\ Range(meaningful_lemmas) # Range(lemmas)
    /\ Len(df_results) >= 1

\* C3: when the dictionary of a language that has one recognizes none of the
\* words of a non-empty lemma sequence, the sequence that reaches the
\* aggregator is the pre-filter sequence and a warning is emitted.
C3_FallbackKeepsSequence ==
    ( /\ PastSpellcheck
      /\ enable_spellcheck
      /\ language_details.spellchecker # "None"
      /\ spell_outcome = "answered"
      /\ lemmas # <<>>
      /\ dictionary_words \cap Range(lemmas) = {} )
    => /\ meaningful_lemmas = lemmas
       /\ pc = "aggregate" \/ result = "DataFrame"
       /\ Emitted(Warning(MsgFilteredAll)) \/ Emitted(Warning(MsgNoneInDictionary))

C3_Witness ==
    /\ result = "DataFrame"
    /\ enable_spellcheck
    /\ language_details.spellchecker # "None"
    /\ spell_outcome = "answered"
    /\ dictionary_words = {}
    /\ Len(lemmas) >= 2
    /\ meaningful_lemmas = lemmas
    /\ Emitted(Warning(MsgFilteredAll))

\* C4, as stated: "no data" runs that became empty at different stages
\* emitted different messages.
C4_MessagesDistinctPerStage ==
    \A p \in no_data_log, q \in no_data_log : p[1] # q[1] => p[2] # q[2]

\* C4, amended: the message of a "no data" run tells apart "no text
\* extracted", "no words after basic filtering or stopword removal" and "no
\* words after all processing"; basic filtering and stopword removal share
\* one message.
C4_MessagesPerStageGroup ==
    /\ \A p \in no_data_log :
         /\ p[2] = MsgNoText <=> p[1] = "text"
         /\ p[2] = MsgNoProcessable <=> p[1] \in {"basic", "stopword"}
         /\ p[2] = MsgNoneRemained <=> p[1] = "all"
    /\ (pc = "done" /\ empty_stage # "none") =>
         /\ result = "None"
         /\ <<empty_stage, notes[Len(notes)][2]>> \in no_data_log
         /\ notes[Len(notes)][1] = "warning"

C4_Witness ==
    /\ <<"text", MsgNoText>> \in no_data_log
    /\ <<"basic", MsgNoProcessable>> \in no_data_log
    /\ <<"stopword", MsgNoProcessable>> \in no_data_log

\* C5: the table has one row per distinct lemma of the final sequence, each
\* count is the number of occurrences of its lemma, and the counts add up to
\* the length of the sequence.
C5_TableCountsSequence ==
    result = "DataFrame" =>
        /\ \A i \in 1..Len(df_results), j \in 1..Len(df_results) :
               df_results[i].Word = df_results[j].Word => i = j
        /\ Keys = Range(meaningful_lemmas)
        /\ \A i \in 1..Len(df_results) :
               df_results[i].Count = Occurrences(meaningful_lemmas, df_results[i].Word)
        /\ SumCounts(df_results) = Len(meaningful_lemmas)

C5_Witness ==
    /\ result = "DataFrame"
    /\ Len(df_results) >= 2
    /\ \E i \in 1..Len(df_results) : df_results[i].Count >= 2

\* C6: the rows of the returned table are in non-increasing order of count,
\* and they are the rows that were counted: none added, none dropped.
C6_SortedByCountDescending ==
    result = "DataFrame" =>
        /\ \A i \in 1..(Len(df_results) - 1) :
               df_results[i].Count >= df_results[i + 1].Count
        /\ Len(df_results) = Len(word_counts)
        /\ \A r \in Range(df_results) \cup Range(word_counts) :
               Cardinality({i \in 1..Len(df_results) : df_results[i] = r})
                 = Cardinality({i \in 1..Len(word_counts) : word_counts[i] = r})

C6_Witness ==
    /\ result = "DataFrame"
    /\ Len(word_counts) >= 2
    /\ word_counts[1].Count < word_counts[2].Count
    /\ df_results # word_counts

\* C7: with dictionary filtering requested for a language without a
\* dictionary, the sequence passes the stage unchanged, no dictionary is
\* used, and the stage emits an informational note and no warning.
C7_NoDictionarySkips ==
    ( /\ PastSpellcheck
      /\ enable_spellcheck
      /\ language_details.spellchecker = "None" )
    => /\ meaningful_lemmas = lemmas
       /\ spell_outcome = "not_used"
       /\ dictionary_words = {}
       /\ Emitted(Info(MsgSpellSkipped))
       /\ ~Emitted(Info(MsgAttemptingSpell))
       /\ \A i \in 1..Len(notes) : notes[i][1] # "warning"

C7_Witness ==
    /\ result = "DataFrame"
    /\ enable_spellcheck
    /\ language_details.spellchecker = "None"
    /\ Len(df_results) >= 2

\* C8: an error of the dictionary is not fatal: a warning is emitted, the
\* pre-filter sequence goes on unchanged and its frequency table is returned.
C8_DictionaryErrorNotFatal ==
    spell_outcome \in {"construct_error", "known_error"} =>
        /\ Emitted(Warning(MsgSpellFailed))
        /\ meaningful_lemmas = lemmas
        /\ pc \in {"aggregate", "done"}
        /\ pc = "done" =>
             /\ result = "DataFrame"
             /\ Keys = Range(lemmas)
             /\ \A i \in 1..Len(df_results) :
                    df_results[i].Count = Occurrences(lemmas, df_results[i].Word)

C8_Witness ==
    /\ spell_outcome = "known_error"
    /\ result = "DataFrame"
    /\ Len(df_results) >= 2

\* C9: cleaning a cleaned text gives the same text back.
C9_CleanIdempotent ==
    pc = "recleaned" => recleaned_text = cleaned_text

C9_Witness ==
    /\ pc = "recleaned"
    /\ Len(cleaned_text) >= 3
    /\ Len(cleaned_text) < Len(raw_text)
    /\ " " \in Range(cleaned_text)

\* C10: the dictionary stage never empties a non-empty sequence: "No words
\* remained after all processing steps" is never emitted, the second fallback
\* branch is never taken, and every returned table has at least one row.
C10_DictionaryStageNeverEmpties ==
    /\ PastSpellcheck => meaningful_lemmas # <<>>
    /\ ~Emitted(Warning(MsgNoneRemained))
    /\ \A p \in no_data_log : p[1] # "all"
    /\ ~Emitted(Warning(MsgNoneInDictionary))
    /\ result = "DataFrame" => Len(df_results) >= 1
    /\ ~Emitted(Info(MsgNothingToDisplay))

C10_Witness ==
    /\ result = "DataFrame"
    /\ spell_outcome = "answered"
    /\ dictionary_words = {}
    /\ Emitted(Warning(MsgFilteredAll))
    /\ Emitted(Success(MsgComplete))

====
